---- MODULE Spec2Model ----
(***************************************************************************)
(* Model of the platform-agnostic RHD2000 / RHD2164 driver (src/src/rhd.c).*)
(*                                                                         *)
(* The driver keeps no state beyond the device handle (mode flag and       *)
(* transport callback).  Every public function is one action; the state    *)
(* after an action records the function that ran, its arguments, the       *)
(* transport calls it made (words sent, words received, len) and what it   *)
(* returned.  The transport is the environment: the words it hands back    *)
(* are chosen nondeterministically.  The driver is synchronous and         *)
(* single-threaded: a call starts only once the caller has taken the       *)
(* result of the one before (op = "idle").                                 *)
(***************************************************************************)
EXTENDS Integers, Sequences, FiniteSets, TLC

VARIABLES
    double_bits,  \* dev->double_bits
    op,           \* name of the function that ran last
    args,         \* its arguments
    calls,        \* the dev->rw calls it made, in order: [tx, rx, len]
    ret,          \* its return value (0 where it returns void or its argument)
    stored,       \* the words it stored through its output pointers
    sel,          \* table indices / counters it computed (locals)
    chip          \* the simulated chip behind dev->rw, where one is attached

vars == <<double_bits, op, args, calls, ret, stored, sel, chip>>

(***************************************************************************)
(* C integer operators on non-negative values.                             *)
(***************************************************************************)
RECURSIVE BitAnd(_, _)
BitAnd(x, y) ==
    IF x = 0 \/ y = 0 THEN 0
    ELSE (x % 2) * (y % 2) + 2 * BitAnd(x \div 2, y \div 2)

RECURSIVE BitOr(_, _)
BitOr(x, y) ==
    IF x = 0 THEN y
    ELSE IF y = 0 THEN x
    ELSE (IF x % 2 = 1 \/ y % 2 = 1 THEN 1 ELSE 0) + 2 * BitOr(x \div 2, y \div 2)

Shl(x, n) == x * (2 ^ n)

Shr(x, n) == x \div (2 ^ n)

\* conversion to uint8_t / uint16_t
U8(x) == x % 256

U16(x) == x % 65536

Bit(x, i) == (x \div (2 ^ i)) % 2

(***************************************************************************)
(* Bit codec.                                                              *)
(***************************************************************************)
RECURSIVE DupLoop(_, _, _)
DupLoop(val, i, out) ==
    IF i >= 8 THEN out
    ELSE LET tmp == BitAnd(Shr(val, i), 1)
         IN  DupLoop(val, i + 1, BitOr(out, Shl(BitOr(Shl(tmp, 1), tmp), 2 * i)))

RECURSIVE SpreadLoop(_, _, _)
SpreadLoop(val, i, out) ==
    IF i >= 8 THEN out
    ELSE LET tmp == BitAnd(Shr(val, i), 1)
         IN  SpreadLoop(val, i + 1, BitOr(out, Shl(tmp, 2 * i)))

\* slip: `tmp << 2 * i` in place of `(tmp << 1 | tmp) << 2 * i`
rhd_duplicate_bits_spread(val) == SpreadLoop(U8(val), 0, 0)

\* the loop of rhd_duplicate_bits run once for each uint8_t argument
DupTable == [v \in 0..255 |-> DupLoop(v, 0, 0)]

\* static int rhd_duplicate_bits(uint8_t val)
rhd_duplicate_bits(val) == DupTable[U8(val)]

shift_arr == <<1, 2, 4, 8, 16, 32, 64, 128>>

RECURSIVE UnsplitLoop(_, _, _)
UnsplitLoop(data, i, acc) ==
    IF i >= 8 THEN acc
    ELSE UnsplitLoop(data, i + 1, BitOr(acc, BitAnd(Shr(data, i), shift_arr[i + 1])))

\* slip: the two streams taken as the low byte and the byte one bit up
rhd_unsplit_u16_contig(data) == [a |-> U8(Shr(data, 1)), b |-> U8(data)]

\* static void rhd_unsplit_u16(uint16_t data, uint8_t *a, uint8_t *b)
rhd_unsplit_u16(data) ==
    LET dataa == Shr(data, 1)
    IN  [a |-> UnsplitLoop(dataa, 0, 0), b |-> UnsplitLoop(data, 0, 0)]

(***************************************************************************)
(* Register addresses (rhd.h, RHD2000 register map).                       *)
(***************************************************************************)
ADC_CFG == 0

SUPPLY_SENS_ADC_BUF_BIAS == 1

MUX_BIAS_CURR == 2

MUX_LOAD_TEMP_SENS_AUX_DIG_OUT == 3

ADC_OUT_FMT_DPS_OFF_RMVL == 4

IMP_CHK_CTRL == 5

IMP_CHK_DAC == 6

IMP_CHK_AMP_SEL == 7

AMP_BW_SEL_0 == 8

IND_AMP_PWR_0 == 14

INTAN_0 == 40

CHIP_ID == 63

(***************************************************************************)
(* Command framing.                                                        *)
(***************************************************************************)
\* one dev->rw(tx, rx, len) call
Call(tx, rx, len) == [tx |-> tx, rx |-> rx, len |-> len]

\* slip: val is or-ed in without `& 0xFF`
rhd_send_tx_nomask(db, reg, val) ==
    IF ~db
    THEN <<U16(BitOr(Shl(reg, 8), val))>>
    ELSE <<U16(rhd_duplicate_bits(reg)), U16(rhd_duplicate_bits(val))>>

\* rhd_send: the words placed in tx
rhd_send_tx(db, reg, val) ==
    IF ~db
    THEN <<U16(BitOr(Shl(reg, 8), BitAnd(val, 255)))>>
    ELSE <<U16(rhd_duplicate_bits(reg)), U16(rhd_duplicate_bits(val))>>

\* rhd_send: the len handed to dev->rw
rhd_send_len(db) == IF ~db THEN 1 ELSE 2

\* slip: rx[0] is decoded in place of rx[1]
rhd_send_ret_first(db, rx) ==
    IF ~db
    THEN U8(BitAnd(rx[1], 255))
    ELSE rhd_unsplit_u16(rx[1]).a

\* rhd_send: the value returned, given the words received
rhd_send_ret(db, rx) ==
    IF ~db
    THEN U8(BitAnd(rx[1], 255))
    ELSE rhd_unsplit_u16(rx[2]).a

\* uint8_t rhd_send(dev, reg, val): its one transport call
rhd_send_call(db, reg, val, rx) ==
    Call(rhd_send_tx(db, reg, val), rx, rhd_send_len(db))

\* slip: the opcode is or-ed in without masking the address to 6 bits
rhd_w_reg_nomask(reg) == BitOr(reg, 128)

\* rhd_w: reg = (reg & 0x3F) | 0x80
rhd_w_reg(reg) == BitOr(BitAnd(reg, 63), 128)

\* rhd_r: reg = (reg & 0x3F) | 0xC0
rhd_r_reg(reg) == BitOr(BitAnd(reg, 63), 192)

\* uint8_t rhd_r(dev, reg): its one transport call
rhd_r_call(db, reg, rx) == rhd_send_call(db, rhd_r_reg(reg), 0, rx)

\* uint8_t rhd_w(dev, reg, val): its one transport call
rhd_w_call(db, reg, val, rx) == rhd_send_call(db, rhd_w_reg(reg), val, rx)

(***************************************************************************)
(* Configuration engine.                                                   *)
(*                                                                         *)
(* Frequencies are fixed-point: fs and fh in Hz, fl in 1/100 Hz, fdsp in   *)
(* 1/1000 Hz.  A read past the end of a table is undefined behaviour: the  *)
(* value read is whatever the caller of LutRead supplies as `oob`.         *)
(***************************************************************************)
LutRead(lut, i, oob) == IF i < Len(lut) THEN lut[i + 1] ELSE oob

msps_lut == <<120000, 140000, 175000, 220000, 280000, 350000, 440000, 525000, 700000>>

adc_buf_bias_lut == <<32, 16, 8, 8, 8, 4, 3, 3, 2>>

mux_bias_lut == <<40, 40, 40, 32, 26, 18, 16, 7, 4>>

RECURSIVE FsWalk(_, _, _)
FsWalk(msps, i, i_lut) ==
    IF i >= Len(msps_lut) THEN i_lut
    ELSE IF msps <= msps_lut[i + 1] THEN i_lut
    ELSE FsWalk(msps, i + 1, i)

RECURSIVE FsWalkStrict(_, _, _)
FsWalkStrict(msps, i, i_lut) ==
    IF i >= Len(msps_lut) THEN i_lut
    ELSE IF msps < msps_lut[i + 1] THEN i_lut
    ELSE FsWalkStrict(msps, i + 1, i)

\* slip: `msps < msps_lut[i]` in place of `msps <= msps_lut[i]`
rhd_cfg_fs_i_lut_strict(fs, n_ch) == FsWalkStrict(fs * n_ch, 0, 0)

\* rhd_cfg_fs: i_lut after the loop
rhd_cfg_fs_i_lut(fs, n_ch) == FsWalk(fs * n_ch, 0, 0)

\* int rhd_cfg_fs(dev, fs, n_ch): its transport calls
rhd_cfg_fs_calls(db, fs, n_ch, rx) ==
    LET i_lut == rhd_cfg_fs_i_lut(fs, n_ch)
    IN  << rhd_w_call(db, SUPPLY_SENS_ADC_BUF_BIAS, adc_buf_bias_lut[i_lut + 1], rx),
           rhd_w_call(db, MUX_BIAS_CURR, mux_bias_lut[i_lut + 1], rx) >>

fh_lut == <<20000, 15000, 10000, 7500, 5000, 3000, 2500, 2000, 1500, 1000, 750, 500, 300, 250, 200, 150, 100>>

rh1_dac1_lut == <<8, 11, 17, 22, 33, 3, 13, 27, 1, 46, 41, 30, 6, 42, 24, 44, 38>>

rh1_dac2_lut == <<0, 0, 0, 0, 0, 1, 1, 1, 2, 2, 3, 5, 9, 10, 13, 17, 26>>

rh2_dac1_lut == <<4, 8, 16, 23, 37, 13, 25, 44, 23, 30, 36, 43, 2, 5, 7, 8, 5>>

rh2_dac2_lut == <<0, 0, 0, 0, 0, 1, 1, 1, 2, 3, 4, 6, 11, 13, 16, 21, 31>>

RECURSIVE FhWalk(_, _, _)
FhWalk(fh, i, i_fh) ==
    IF i >= Len(fh_lut) THEN i_fh
    ELSE IF fh >= fh_lut[i + 1] THEN i_fh
    ELSE FhWalk(fh, i + 1, i_fh + 1)

\* rhd_cfg_amp_bw: i_fh after the loop
rhd_cfg_amp_bw_i_fh(fh) == FhWalk(fh, 0, 0)

\* fl_lut in 1/100 Hz: 0.1, 0.25, 0.3, ... 500
fl_lut == <<10, 25, 30, 50, 75, 100, 150, 200, 250, 300, 500, 750, 1000, 1500, 2000, 2500, 3000, 5000, 7500, 10000, 15000, 20000, 25000, 30000, 50000>>

rl_dac1_lut == <<16, 56, 1, 35, 49, 44, 9, 8, 42, 20, 40, 18, 5, 62, 54, 48, 44, 34, 28, 25, 21, 18, 17, 15, 13>>

rl_dac2_lut == <<60, 54, 40, 17, 9, 6, 4, 3, 2, 2, 1, 1, 1, 0, 0, 0, 0, 0, 0, 0, 0, 0, 0, 0, 0>>

rl_dac3_lut == <<1, 0, 0, 0, 0, 0, 0, 0, 0, 0, 0, 0, 0, 0, 0, 0, 0, 0, 0, 0, 0, 0, 0, 0, 0>>

RECURSIVE FlWalk(_, _, _)
FlWalk(fl, i, i_fl) ==
    IF i >= Len(fl_lut) THEN i_fl
    ELSE IF fl <= fl_lut[i + 1] THEN i_fl
    ELSE FlWalk(fl, i + 1, i_fl + 1)

\* rhd_cfg_amp_bw: i_fl after the loop
rhd_cfg_amp_bw_i_fl(fl) == FlWalk(fl, 0, 0)

\* int rhd_cfg_amp_bw(dev, fl, fh): its transport calls; oobh and oobl are
\* the values the out-of-bounds table reads yield
rhd_cfg_amp_bw_calls(db, fl, fh, oobh, oobl, rx) ==
    LET i_fh == rhd_cfg_amp_bw_i_fh(fh)
        i_fl == rhd_cfg_amp_bw_i_fl(fl)
    IN  << rhd_w_call(db, AMP_BW_SEL_0, U16(LutRead(rh1_dac1_lut, i_fh, oobh[1])), rx),
           rhd_w_call(db, AMP_BW_SEL_0 + 1, U16(LutRead(rh1_dac2_lut, i_fh, oobh[2])), rx),
           rhd_w_call(db, AMP_BW_SEL_0 + 2, U16(LutRead(rh2_dac1_lut, i_fh, oobh[3])), rx),
           rhd_w_call(db, AMP_BW_SEL_0 + 3, U16(LutRead(rh2_dac2_lut, i_fh, oobh[4])), rx),
           rhd_w_call(db, AMP_BW_SEL_0 + 4, U16(LutRead(rl_dac1_lut, i_fl, oobl[1])), rx),
           rhd_w_call(db, AMP_BW_SEL_0 + 5,
                      U16(BitOr(Shl(LutRead(rl_dac3_lut, i_fl, oobl[3]), 6),
                                LutRead(rl_dac2_lut, i_fl, oobl[2]))), rx) >>

\* k_lut in 1e-9: 0.99, 0.1103, ... 0.000004857
k_lut == <<990000000, 110300000, 45790000, 21250000, 10270000, 5053000, 2506000, 1248000, 622900, 311200, 155500, 77730, 38860, 19430, 9714, 4857>>

K_DEN == 1000000000

\* a / b > c / d for a, c >= 0 and b, d > 0, without forming products
RECURSIVE RatGt(_, _, _, _)
RatGt(a, b, c, d) ==
    LET qa == a \div b
        qc == c \div d
        ra == a % b
        rc == c % d
    IN  IF qa # qc THEN qa > qc
        ELSE IF ra = 0 THEN FALSE
        ELSE IF rc = 0 THEN TRUE
        ELSE RatGt(d, rc, b, ra)

\* `k > k_lut[i]` with float k = fdsp / fs against the double k_lut[i].  k
\* carries the rounding of the float division and of its operands, under
\* 2^-21 relative: inside that band around k_lut[i] either outcome is taken
\* as possible.
KMargin(i) == (k_lut[i + 1] \div (2 ^ 21)) + 1

KSurelyGt(fdsp, fs, i) == RatGt(fdsp, 1000 * fs, k_lut[i + 1] + KMargin(i), K_DEN)

KSurelyNotGt(fdsp, fs, i) == RatGt(k_lut[i + 1] - KMargin(i), K_DEN, fdsp, 1000 * fs)

KInBand(fdsp, fs, i) == ~KSurelyGt(fdsp, fs, i) /\ ~KSurelyNotGt(fdsp, fs, i)

\* rhd_cfg_dsp: the values float k = fdsp / fs can have, as fractions
\* <<n, d>>: the quotient, or, where the quotient is within rounding of a
\* table entry, a value on either side of that entry (no entry is a float, so
\* k equals none)
rhd_cfg_dsp_k(fdsp, fs) ==
    LET near == {i \in 0..(Len(k_lut) - 1) : KInBand(fdsp, fs, i)}
    IN  IF near = {} THEN {<<fdsp, 1000 * fs>>}
        ELSE UNION {{<<k_lut[i + 1] - KMargin(i), K_DEN>>,
                     <<k_lut[i + 1] + KMargin(i), K_DEN>>} : i \in near}

\* slip: dsp_val is incremented before the comparison
RECURSIVE DspWalkEager(_, _, _)
DspWalkEager(k, i, dsp_val) ==
    IF i >= Len(k_lut) THEN dsp_val
    ELSE IF RatGt(k[1], k[2], k_lut[i + 1], K_DEN) THEN dsp_val + 1
    ELSE DspWalkEager(k, i + 1, dsp_val + 1)

\* rhd_cfg_dsp: dsp_val after the loop
RECURSIVE DspWalk(_, _, _)
DspWalk(k, i, dsp_val) ==
    IF i >= Len(k_lut) THEN dsp_val
    ELSE IF RatGt(k[1], k[2], k_lut[i + 1], K_DEN) THEN dsp_val
    ELSE DspWalk(k, i + 1, dsp_val + 1)

\* rhd_cfg_dsp: dsp_val when the value is written
rhd_cfg_dsp_dsp_val(dsp, k) == IF dsp THEN DspWalk(k, 0, 0) ELSE 0

\* the values dsp_val can have for the arguments
rhd_cfg_dsp_dsp_vals(dsp, fdsp, fs) ==
    {rhd_cfg_dsp_dsp_val(dsp, k) : k \in rhd_cfg_dsp_k(fdsp, fs)}

B2I(b) == IF b THEN 1 ELSE 0

\* rhd_cfg_dsp: the value handed to rhd_w
rhd_cfg_dsp_val(twos_comp, abs_mode, dsp, dsp_val) ==
    BitOr(BitOr(BitOr(BitOr(Shl(1, 7), Shl(B2I(twos_comp), 6)), Shl(B2I(abs_mode), 5)),
                Shl(B2I(dsp), 4)), dsp_val)

\* int rhd_cfg_dsp(dev, twos_comp, abs_mode, dsp, fdsp, fs): its transport call
rhd_cfg_dsp_calls(db, twos_comp, abs_mode, dsp, dsp_val, rx) ==
    << rhd_w_call(db, ADC_OUT_FMT_DPS_OFF_RMVL,
                  rhd_cfg_dsp_val(twos_comp, abs_mode, dsp, dsp_val), rx) >>

\* uint32_t x: (x >> 8 * k) & 0xFF, x held as its four bytes, low byte first
ByteOf(x, k) == x[k + 1]

\* int rhd_cfg_ch(dev, channels_l, channels_h): its transport calls
rhd_cfg_ch_calls(db, channels_l, channels_h, rx) ==
    [n \in 1..8 |->
        IF n <= 4
        THEN rhd_w_call(db, IND_AMP_PWR_0 + (n - 1), ByteOf(channels_l, n - 1), rx)
        ELSE rhd_w_call(db, IND_AMP_PWR_0 + (n - 1), ByteOf(channels_h, n - 5), rx)]

(***************************************************************************)
(* Device lifecycle.                                                       *)
(***************************************************************************)
\* "INTAN"
INTAN == <<73, 78, 84, 65, 78>>

\* slip: `i < 8` in place of `i < 9`
rhd_calib_calls_short(db, rx) ==
    <<rhd_send_call(db, 85, 0, rx)>> \o [n \in 1..8 |-> rhd_r_call(db, CHIP_ID, rx)]

\* uint8_t rhd_calib(dev): its transport calls
rhd_calib_calls(db, rx) ==
    <<rhd_send_call(db, 85, 0, rx)>> \o [n \in 1..9 |-> rhd_r_call(db, CHIP_ID, rx)]

\* uint8_t rhd_clear_calib(dev): its transport call
rhd_clear_calib_calls(db, rx) == <<rhd_send_call(db, 106, 0, rx)>>

\* uint8_t rhd_read_force(dev, reg): its transport calls, rxs the three replies
rhd_read_force_calls(db, reg, rxs) ==
    << rhd_r_call(db, U16(reg), rxs[1]),
       rhd_r_call(db, U16(reg), rxs[2]),
       rhd_r_call(db, U16(reg), rxs[3]) >>

\* slip: the reply to the first read is returned
rhd_read_force_ret_first(db, rxs) == rhd_send_ret(db, rxs[1])

\* rhd_read_force: the value returned
rhd_read_force_ret(db, rxs) == rhd_send_ret(db, rxs[3])

\* int rhd_sanity_check(dev): calls made and value returned from iteration i
\* on; script[i + 1] holds the three replies to the forced read of INTAN_0 + i
RECURSIVE SanityLoop(_, _, _)
SanityLoop(db, i, script) ==
    IF i >= Len(INTAN) THEN [calls |-> <<>>, ret |-> 0]
    ELSE LET cs  == rhd_read_force_calls(db, INTAN_0 + i, script[i + 1])
             let == rhd_read_force_ret(db, script[i + 1])
         IN  IF let # INTAN[i + 1]
             THEN [calls |-> cs, ret |-> i + INTAN_0]
             ELSE LET rest == SanityLoop(db, i + 1, script)
                  IN  [calls |-> cs \o rest.calls, ret |-> rest.ret]

\* slip: the `break` is missing, every register is read and the last
\* mismatch wins
RECURSIVE SanityLoopNoBreak(_, _, _, _)
SanityLoopNoBreak(db, i, script, r) ==
    IF i >= Len(INTAN) THEN [calls |-> <<>>, ret |-> r]
    ELSE LET cs   == rhd_read_force_calls(db, INTAN_0 + i, script[i + 1])
             let  == rhd_read_force_ret(db, script[i + 1])
             rest == SanityLoopNoBreak(db, i + 1, script,
                                       IF let # INTAN[i + 1] THEN i + INTAN_0 ELSE r)
         IN  [calls |-> cs \o rest.calls, ret |-> rest.ret]

rhd_sanity_check_run_nobreak(db, script) == SanityLoopNoBreak(db, 0, script, 0)

rhd_sanity_check_run(db, script) == SanityLoop(db, 0, script)

\* 0xFFFFFFFF
ALL_CH == <<255, 255, 255, 255>>

\* int rhd_setup(dev, fs, fl, fh, dsp, fdsp): calls made and value returned
rhd_setup_run(db, fs, fl, fh, dsp, dsp_val, oobh, oobl, rx, script) ==
    LET chk == rhd_sanity_check_run(db, script)
    IN  [calls |->
            << rhd_r_call(db, CHIP_ID, rx),
               rhd_r_call(db, CHIP_ID, rx),
               rhd_w_call(db, ADC_CFG, 222, rx),
               rhd_w_call(db, MUX_LOAD_TEMP_SENS_AUX_DIG_OUT, 0, rx),
               rhd_w_call(db, IMP_CHK_CTRL, 0, rx),
               rhd_w_call(db, IMP_CHK_DAC, 0, rx),
               rhd_w_call(db, IMP_CHK_AMP_SEL, 0, rx) >>
            \o rhd_cfg_fs_calls(db, fs, 32, rx)
            \o rhd_cfg_dsp_calls(db, TRUE, FALSE, dsp, dsp_val, rx)
            \o rhd_cfg_ch_calls(db, ALL_CH, ALL_CH, rx)
            \o rhd_cfg_amp_bw_calls(db, fl, fh, oobh, oobl, rx)
            \o rhd_calib_calls(db, rx)
            \o chk.calls,
         ret |-> chk.ret]

(***************************************************************************)
(* Channel acquisition.                                                    *)
(***************************************************************************)
\* slip: the one-word transfer is issued whatever the mode
rhd2164_sample_run_oneword(db, ch, rx_in, reply) ==
    [call |-> Call(<<U16(Shl(ch, 8))>>, reply, 1),
     rx   |-> <<reply[1], rx_in[2]>>]

\* slip: the `| 1` on both words is missing
rhd2164_sample_run_nomark(db, ch, rx_in, reply) ==
    IF ~db
    THEN [call |-> Call(<<U16(Shl(ch, 8))>>, reply, 1),
          rx   |-> <<reply[1], rx_in[2]>>]
    ELSE LET hi == rhd_unsplit_u16(reply[1])
             lo == rhd_unsplit_u16(reply[2])
         IN  [call |-> Call(<<U16(rhd_duplicate_bits(ch)), 0>>, reply, 2),
              rx   |-> << BitOr(Shl(hi.a, 8), lo.a), BitOr(Shl(hi.b, 8), lo.b) >>]

\* uint16_t *rhd2164_sample(dev, ch, rx): the transport call made and the two
\* words of the caller's buffer afterwards; rx_in is the buffer beforehand,
\* reply the words the transport stores
rhd2164_sample_run(db, ch, rx_in, reply) ==
    IF ~db
    THEN [call |-> Call(<<U16(Shl(ch, 8))>>, reply, 1),
          rx   |-> <<reply[1], rx_in[2]>>]
    ELSE LET hi == rhd_unsplit_u16(reply[1])
             lo == rhd_unsplit_u16(reply[2])
         IN  [call |-> Call(<<U16(rhd_duplicate_bits(ch)), 0>>, reply, 2),
              rx   |-> << BitOr(BitOr(Shl(hi.a, 8), lo.a), 1),
                          BitOr(BitOr(Shl(hi.b, 8), lo.b), 1) >>]

\* uint16_t rhd2000_sample(dev, ch): the transport call made and the value
\* returned
rhd2000_sample_run(ch, reply) ==
    [call |-> Call(<<U16(Shl(ch, 8))>>, reply, 1), ret |-> reply[1]]

\* slip: `ch - 1` in place of `ch - 2`
rx_ch_of_late(ch) == IF ch < 2 THEN 31 - ch ELSE ch - 1

\* rhd2164_sample_all: int rx_ch = ch < 2 ? 31 - ch : ch - 2
rx_ch_of(ch) == IF ch < 2 THEN 31 - ch ELSE ch - 2

\* rhd2164_sample_all: how many times the loop stores to each slot
\* (sample_buf[s] is entry s + 1)
sweep_stores ==
    [n \in 1..64 |->
        Cardinality({ch \in 0..31 : rx_ch_of(ch) + 1 = n \/ rx_ch_of(ch) + 33 = n})]

\* rhd2164_sample_all: the loop from iteration ch on; rx is the local buffer,
\* buf the frame so far (sample_buf[s] is buf[s + 1]), cs the calls so far,
\* script[ch + 1] the reply to the request for ch
RECURSIVE SweepLoop(_, _, _, _, _, _)
SweepLoop(db, ch, rx, buf, cs, script) ==
    IF ch >= 32 THEN [calls |-> cs, buf |-> buf]
    ELSE LET r     == rhd2164_sample_run(db, ch, rx, script[ch + 1])
             rx_ch == rx_ch_of(ch)
             buf2  == [buf EXCEPT ![rx_ch + 1] = r.rx[1], ![rx_ch + 33] = r.rx[2]]
         IN  SweepLoop(db, ch + 1, r.rx, buf2, Append(cs, r.call), script)

\* slip: the alignment step `sample_buf[0] &= 0xFFFE` is missing
rhd2164_sample_all_run_noalign(db, buf0, script) ==
    SweepLoop(db, 0, <<0, 0>>, buf0, <<>>, script)

\* void rhd2164_sample_all(dev, sample_buf): calls made and the frame left in
\* sample_buf, buf0 being its content beforehand
rhd2164_sample_all_run(db, buf0, script) ==
    LET r == SweepLoop(db, 0, <<0, 0>>, buf0, <<>>, script)
    IN  [calls |-> r.calls,
         buf   |-> [r.buf EXCEPT ![1] = BitAnd(r.buf[1], 65534)]]

(***************************************************************************)
(* Inputs: arguments the caller may pass and words the transport may hand  *)
(* back.                                                                   *)
(***************************************************************************)
MaxRx == 3

Slack == 1

RxWords == {U16(i * 21845) : i \in 0..MaxRx} \cup {4660}

\* every reply of len words
Replies(len) ==
    IF len = 1 THEN {<<w>> : w \in RxWords}
    ELSE {<<w, v>> : w \in RxWords, v \in RxWords}

\* replies used where one operation makes many calls
BurstReplies(len) ==
    IF len = 1 THEN {<<w>> : w \in RxWords}
    ELSE {<<U16(w + 1), w>> : w \in RxWords}

RegInputs == {r + h : r \in {0, 1, 40, 63}, h \in {0, 64, 128, 192, 256, 65472}}

ValInputs == {0, 1, 83, 128, 255, 256, 421, 65535}

Around(t) == (t - Slack)..(t + Slack)

Range(f) == {f[i] : i \in DOMAIN f}

FsChInputs ==
    {<<f, 32>> : f \in {1000, 3125, 3750, 3751, 4375, 20000, 21875, 25000, 30000}}
    \cup {<<f, 1>> : f \in UNION {Around(t) : t \in Range(msps_lut)} \cup {100000, 800000}}

FhInputs == UNION {Around(t) : t \in Range(fh_lut)} \cup {90, 25000}

FlInputs == UNION {Around(t) : t \in Range(fl_lut)} \cup {1, 60000}

\* <<fl, fh>>
BwInputs ==
    {<<fl, fh>> : fl \in {10, 2000, 60000}, fh \in FhInputs}
    \cup {<<fl, fh>> : fl \in FlInputs, fh \in {20000, 300, 90}}

\* <<fdsp, fs>>
DspInputs ==
    {<<fdsp, fs>> : fdsp \in {1, 4, 5, 100, 1000, 10000, 110300, 300000, 990000, 2000000},
                    fs \in {1000, 20000, 30000}}

OobInts == {0, 421}

\* values n out-of-bounds reads yield when the index is past the table
OobReads(lut, i, n) ==
    IF i < Len(lut) THEN {[k \in 1..n |-> 0]}
    ELSE {[k \in 1..n |-> v] : v \in OobInts}

ChMasks == {ALL_CH, <<0, 0, 0, 0>>, <<1, 2, 4, 8>>, <<15, 240, 170, 85>>}

ChInputs == 0..31 \cup {32, 255, 256}

\* the word the chip drives with die A on the odd and die B on the even bits
RECURSIVE DdrLoop(_, _, _)
DdrLoop(a, b, i) ==
    IF i >= 8 THEN 0
    ELSE Bit(a, i) * (2 ^ (2 * i + 1)) + Bit(b, i) * (2 ^ (2 * i)) + DdrLoop(a, b, i + 1)

DdrWord(a, b) == DdrLoop(a, b, 0)

\* a reply whose register byte is `byte`
IdReply(db, byte, pad) ==
    IF ~db THEN <<BitOr(Shl(pad, 8), byte)>>
    ELSE <<U16(pad * 257), DdrWord(byte, pad)>>

\* the identity bytes a chip may answer: each right or 'X'
IdBytes == {b \in [1..5 -> Range(INTAN) \cup {88}] : \A i \in 1..5 : b[i] \in {INTAN[i], 88}}

\* the same with at most one byte wrong
IdBytesOneBad == {b \in IdBytes : Cardinality({i \in 1..5 : b[i] # INTAN[i]}) <= 1}

\* scripts of a sanity check: three replies per identity register
IdScripts(db, bytes, fills, pads) ==
    {[i \in 1..5 |-> <<fill, fill, IdReply(db, b[i], pad)>>] :
        b \in bytes, pad \in pads, fill \in fills}

\* scripts of a sweep: the reply to the request for channel ch
SweepScripts(db) ==
    IF ~db
    THEN {[n \in 1..32 |-> <<U16(w + step * (n - 1))>>] :
            w \in RxWords, step \in {0, 1, 257}}
    ELSE {[n \in 1..32 |-> <<U16(w + step * (n - 1)), U16(v + step * (n - 1))>>] :
            w \in RxWords, v \in RxWords, step \in {0, 1, 257}}

(***************************************************************************)
(* The state machine.                                                      *)
(***************************************************************************)
\* dev->rw answers as it pleases
NoChip == [kind |-> "none"]

DoneChip(db, o, a, cs, r, w, s, c) ==
    /\ double_bits' = db
    /\ op' = o
    /\ args' = a
    /\ calls' = cs
    /\ ret' = r
    /\ stored' = w
    /\ sel' = s
    /\ chip' = c

DoneOut(db, o, a, cs, r, w, s) == DoneChip(db, o, a, cs, r, w, s, NoChip)

Done(db, o, a, cs, r, s) == DoneOut(db, o, a, cs, r, <<>>, s)

\* the device after rhd_init(dev, mode, rw)
Init ==
    \E mode \in BOOLEAN :
      \E script \in IdScripts(mode, IdBytes, BurstReplies(rhd_send_len(mode)), {0, 165}) :
        LET chk == rhd_sanity_check_run(mode, script)
        IN  /\ double_bits = mode
            /\ op = "rhd_init"
            /\ args = [mode |-> mode]
            /\ calls = chk.calls
            /\ ret = chk.ret
            /\ stored = <<>>
            /\ sel = <<>>
            /\ chip = NoChip

rhd_init ==
    /\ op = "idle"
    /\ \E mode \in BOOLEAN :
         \E script \in IdScripts(mode, IdBytes, BurstReplies(rhd_send_len(mode)), {0, 165}) :
           LET chk == rhd_sanity_check_run(mode, script)
           IN  Done(mode, "rhd_init", [mode |-> mode], chk.calls, chk.ret, <<>>)

rhd_send ==
    /\ op = "idle"
    /\ \E reg \in RegInputs \cup {85, 106}, val \in ValInputs :
         \E rx \in Replies(rhd_send_len(double_bits)) :
           Done(double_bits, "rhd_send", [reg |-> reg, val |-> val],
                <<rhd_send_call(double_bits, reg, val, rx)>>,
                rhd_send_ret(double_bits, rx), <<>>)

rhd_r ==
    /\ op = "idle"
    /\ \E reg \in RegInputs :
         \E rx \in Replies(rhd_send_len(double_bits)) :
           Done(double_bits, "rhd_r", [reg |-> reg],
                <<rhd_r_call(double_bits, reg, rx)>>,
                rhd_send_ret(double_bits, rx), <<>>)

rhd_w ==
    /\ op = "idle"
    /\ \E reg \in RegInputs, val \in ValInputs :
         \E rx \in Replies(rhd_send_len(double_bits)) :
           Done(double_bits, "rhd_w", [reg |-> reg, val |-> val],
                <<rhd_w_call(double_bits, reg, val, rx)>>,
                rhd_send_ret(double_bits, rx), <<>>)

rhd_cfg_ch ==
    /\ op = "idle"
    /\ \E channels_l \in ChMasks, channels_h \in ChMasks :
         \E rx \in BurstReplies(rhd_send_len(double_bits)) :
           Done(double_bits, "rhd_cfg_ch",
                [channels_l |-> channels_l, channels_h |-> channels_h],
                rhd_cfg_ch_calls(double_bits, channels_l, channels_h, rx),
                rhd_send_ret(double_bits, rx), <<>>)

rhd_cfg_fs ==
    /\ op = "idle"
    /\ \E in \in FsChInputs :
         \E rx \in BurstReplies(rhd_send_len(double_bits)) :
           Done(double_bits, "rhd_cfg_fs", [fs |-> in[1], n_ch |-> in[2]],
                rhd_cfg_fs_calls(double_bits, in[1], in[2], rx),
                in[1] * in[2],
                [i_lut |-> rhd_cfg_fs_i_lut(in[1], in[2])])

rhd_cfg_amp_bw ==
    /\ op = "idle"
    /\ \E in \in BwInputs :
         LET fl   == in[1]
             fh   == in[2]
             i_fh == rhd_cfg_amp_bw_i_fh(fh)
             i_fl == rhd_cfg_amp_bw_i_fl(fl)
         IN  \E oobh \in OobReads(fh_lut, i_fh, 4), oobl \in OobReads(fl_lut, i_fl, 3) :
               \E rx \in BurstReplies(rhd_send_len(double_bits)) :
                 Done(double_bits, "rhd_cfg_amp_bw", [fl |-> fl, fh |-> fh],
                      rhd_cfg_amp_bw_calls(double_bits, fl, fh, oobh, oobl, rx),
                      rhd_send_ret(double_bits, rx),
                      [i_fh |-> i_fh, i_fl |-> i_fl])

rhd_cfg_dsp ==
    /\ op = "idle"
    /\ \E twos_comp \in BOOLEAN, abs_mode \in BOOLEAN, dsp \in BOOLEAN, in \in DspInputs :
         \E k \in rhd_cfg_dsp_k(in[1], in[2]) :
           \E rx \in BurstReplies(rhd_send_len(double_bits)) :
             LET dsp_val == rhd_cfg_dsp_dsp_val(dsp, k)
             IN  Done(double_bits, "rhd_cfg_dsp",
                      [twos_comp |-> twos_comp, abs_mode |-> abs_mode, dsp |-> dsp,
                       fdsp |-> in[1], fs |-> in[2]],
                      rhd_cfg_dsp_calls(double_bits, twos_comp, abs_mode, dsp, dsp_val, rx),
                      rhd_send_ret(double_bits, rx),
                      [dsp_val |-> dsp_val, k |-> k])

rhd_calib ==
    /\ op = "idle"
    /\ \E rx \in BurstReplies(rhd_send_len(double_bits)) :
         Done(double_bits, "rhd_calib", <<>>, rhd_calib_calls(double_bits, rx),
              rhd_send_ret(double_bits, rx), <<>>)

rhd_clear_calib ==
    /\ op = "idle"
    /\ \E rx \in Replies(rhd_send_len(double_bits)) :
         Done(double_bits, "rhd_clear_calib", <<>>, rhd_clear_calib_calls(double_bits, rx),
              rhd_send_ret(double_bits, rx), <<>>)

rhd_read_force ==
    /\ op = "idle"
    /\ \E reg \in {0, INTAN_0, CHIP_ID, 65536 + INTAN_0} :
         \E r1 \in BurstReplies(rhd_send_len(double_bits)),
            r2 \in BurstReplies(rhd_send_len(double_bits)),
            r3 \in Replies(rhd_send_len(double_bits)) :
           Done(double_bits, "rhd_read_force", [reg |-> reg],
                rhd_read_force_calls(double_bits, reg, <<r1, r2, r3>>),
                rhd_read_force_ret(double_bits, <<r1, r2, r3>>), <<>>)

rhd_sanity_check ==
    /\ op = "idle"
    /\ \E script \in IdScripts(double_bits, IdBytes, BurstReplies(rhd_send_len(double_bits)), {0, 165}) :
         LET chk == rhd_sanity_check_run(double_bits, script)
         IN  Done(double_bits, "rhd_sanity_check", <<>>, chk.calls, chk.ret, <<>>)

rhd_setup ==
    /\ op = "idle"
    /\ \E fs \in {1000, 30000},
          bw \in {<<10, 20000>>, <<2000, 300>>, <<60000, 90>>},
          d \in {<<FALSE, 1000>>, <<TRUE, 1000>>, <<TRUE, 1>>} :
         LET fl   == bw[1]
             fh   == bw[2]
             dsp  == d[1]
             fdsp == d[2]
         IN  \E dsp_val \in rhd_cfg_dsp_dsp_vals(dsp, fdsp, fs),
                oobh \in OobReads(fh_lut, rhd_cfg_amp_bw_i_fh(fh), 4),
                oobl \in OobReads(fl_lut, rhd_cfg_amp_bw_i_fl(fl), 3),
                rx \in BurstReplies(rhd_send_len(double_bits)) :
               \E script \in IdScripts(double_bits, IdBytesOneBad, {rx}, {165}) :
                 LET r == rhd_setup_run(double_bits, fs, fl, fh, dsp, dsp_val,
                                        oobh, oobl, rx, script)
                 IN  Done(double_bits, "rhd_setup",
                          [fs |-> fs, fl |-> fl, fh |-> fh, dsp |-> dsp, fdsp |-> fdsp],
                          r.calls, r.ret,
                          [i_lut |-> rhd_cfg_fs_i_lut(fs, 32), dsp_val |-> dsp_val,
                           i_fh |-> rhd_cfg_amp_bw_i_fh(fh),
                           i_fl |-> rhd_cfg_amp_bw_i_fl(fl)])

rhd2164_sample ==
    /\ op = "idle"
    /\ \E ch \in ChInputs, rx_in \in {<<0, 0>>, <<65535, 65535>>} :
         \E reply \in Replies(rhd_send_len(double_bits)) :
           LET r == rhd2164_sample_run(double_bits, ch, rx_in, reply)
           IN  DoneOut(double_bits, "rhd2164_sample", [ch |-> ch, rx |-> rx_in],
                       <<r.call>>, 0, r.rx, <<>>)

rhd2000_sample ==
    /\ op = "idle"
    /\ \E ch \in ChInputs :
         \E reply \in Replies(1) :
           LET r == rhd2000_sample_run(ch, reply)
           IN  Done(double_bits, "rhd2000_sample", [ch |-> ch], <<r.call>>, r.ret, <<>>)

rhd2164_sample_all ==
    /\ op = "idle"
    /\ \E w0 \in {0, 65535} :
         \E script \in SweepScripts(double_bits) :
           LET r == rhd2164_sample_all_run(double_bits, [s \in 1..64 |-> w0], script)
           IN  DoneOut(double_bits, "rhd2164_sample_all", <<>>, r.calls, 0, r.buf,
                       [stores |-> sweep_stores])

\* the caller has taken the result; of the state only the handle persists
Return ==
    /\ op # "idle"
    /\ double_bits' = double_bits
    /\ op' = "idle"
    /\ args' = <<>>
    /\ calls' = <<>>
    /\ ret' = 0
    /\ stored' = <<>>
    /\ sel' = <<>>
    /\ chip' = NoChip

\* the bit codec applied to an argument of its own
DuplicateBits ==
    /\ op = "idle"
    /\ \E val \in 0..255 :
         Done(double_bits, "rhd_duplicate_bits", [val |-> val], <<>>,
              rhd_duplicate_bits(val), <<>>)

UnsplitU16 ==
    /\ op = "idle"
    /\ \E data \in 0..65535 :
         LET r == rhd_unsplit_u16(data)
         IN  DoneOut(double_bits, "rhd_unsplit_u16", [data |-> data], <<>>,
                     0, <<r.a, r.b>>, <<>>)

Next ==
    \/ Return
    \/ rhd_init
    \/ rhd_send
    \/ rhd_r
    \/ rhd_w
    \/ rhd_cfg_ch
    \/ rhd_cfg_fs
    \/ rhd_cfg_amp_bw
    \/ rhd_cfg_dsp
    \/ rhd_calib
    \/ rhd_clear_calib
    \/ rhd_read_force
    \/ rhd_sanity_check
    \/ rhd_setup
    \/ rhd2164_sample
    \/ rhd2000_sample
    \/ rhd2164_sample_all

Spec == Init /\ [][Next]_vars

\* the codec on its own: every uint8_t through rhd_duplicate_bits, every
\* uint16_t through rhd_unsplit_u16
InitCodec ==
    /\ double_bits = TRUE
    /\ op = "idle"
    /\ args = <<>>
    /\ calls = <<>>
    /\ ret = 0
    /\ stored = <<>>
    /\ sel = <<>>
    /\ chip = NoChip

NextCodec ==
    \/ Return
    \/ DuplicateBits
    \/ UnsplitU16

SpecCodec == InitCodec /\ [][NextCodec]_vars

(***************************************************************************)
(* The driver against simulated chips: a dual-die chip that answers each   *)
(* channel request with the conversion of the channel requested before it, *)
(* a transport that answers a read some transfers late, and a loopback.    *)
(***************************************************************************)
\* the two words a dual-die chip drives for the conversions a and b of its
\* two dies: high bytes, then low bytes
ChipReply(a, b) == <<DdrWord(a \div 256, b \div 256), DdrWord(a % 256, b % 256)>>

\* conversions of channels 0..31 in one sweep period
ChipConversions(x0) == [c \in 0..31 |-> U16(x0 + 2 * c)]

\* replies of a sweep: request 0 is answered with channel 31 of the sweep
\* before, request ch > 0 with channel ch - 1
PipelineScript(c) ==
    [n \in 1..32 |->
        IF n = 1 THEN ChipReply(c.last_a[31], c.last_b[31])
        ELSE ChipReply(c.conv_a[n - 2], c.conv_b[n - 2])]

PipelineChips ==
    {[kind   |-> "pipeline",
      conv_a |-> ChipConversions(a0), conv_b |-> ChipConversions(b0),
      last_a |-> ChipConversions(a0 + drift), last_b |-> ChipConversions(b0 + drift)] :
        a0 \in {0, 4660, 21845, 65000}, b0 \in {0, 4660, 43690}, drift \in {0, 256, 514}}

\* rhd2164_sample_all in a run of back-to-back sweeps of such a chip
rhd2164_sample_all_pipeline ==
    /\ op = "idle"
    /\ double_bits
    /\ \E c \in PipelineChips, w0 \in {0, 65535} :
         LET r == rhd2164_sample_all_run(double_bits, [s \in 1..64 |-> w0], PipelineScript(c))
         IN  DoneChip(double_bits, "rhd2164_sample_all", <<>>, r.calls, 0, r.buf,
                      [stores |-> sweep_stores], c)

\* replies to three reads of a register holding `value`, each answered
\* `delay` transfers after its command; the first `delay` replies carry what
\* was pending from the commands before
DelayedReplies(db, c) ==
    [n \in 1..3 |-> IdReply(db, IF n > c.delay THEN c.value ELSE c.pending[n], c.pad)]

DelayedChips ==
    {[kind |-> "delayed", delay |-> d, value |-> v, pending |-> q, pad |-> pad] :
        d \in 0..2, v \in {0, 73, 165, 255},
        q \in {<<0, 0>>, <<88, 255>>, <<255, 73>>}, pad \in {0, 165}}

\* rhd_read_force against such a transport
rhd_read_force_delayed ==
    /\ op = "idle"
    /\ \E reg \in {0, INTAN_0, CHIP_ID, 65536 + INTAN_0}, c \in DelayedChips :
         LET rxs == DelayedReplies(double_bits, c)
         IN  DoneChip(double_bits, "rhd_read_force", [reg |-> reg],
                      rhd_read_force_calls(double_bits, reg, rxs),
                      rhd_read_force_ret(double_bits, rxs), <<>>, <<>>, c)

\* rhd_send against a transport that hands every transmitted word back
rhd_send_loopback ==
    /\ op = "idle"
    /\ \E reg \in RegInputs \cup {85, 106}, val \in ValInputs :
         LET tx == rhd_send_tx(double_bits, reg, val)
         IN  DoneChip(double_bits, "rhd_send", [reg |-> reg, val |-> val],
                      <<rhd_send_call(double_bits, reg, val, tx)>>,
                      rhd_send_ret(double_bits, tx), <<>>, <<>>, [kind |-> "loopback"])

\* rhd_unsplit_u16 applied to the word rhd_duplicate_bits made
RoundTrip ==
    /\ op = "idle"
    /\ \E val \in 0..255 :
         LET r == rhd_unsplit_u16(rhd_duplicate_bits(val))
         IN  DoneOut(double_bits, "round_trip", [val |-> val], <<>>,
                     rhd_duplicate_bits(val), <<r.a, r.b>>, <<>>)

InitSim ==
    /\ double_bits \in BOOLEAN
    /\ op = "idle"
    /\ args = <<>>
    /\ calls = <<>>
    /\ ret = 0
    /\ stored = <<>>
    /\ sel = <<>>
    /\ chip = NoChip

NextSim ==
    \/ Return
    \/ rhd_read_force
    \/ rhd_read_force_delayed
    \/ rhd_send_loopback
    \/ rhd2164_sample_all_pipeline
    \/ RoundTrip

SpecSim == InitSim /\ [][NextSim]_vars

(***************************************************************************)
(* Reading a transport call back: the command byte and the value byte it   *)
(* puts on the wire.                                                       *)
(***************************************************************************)
\* every logical bit occupies both bits of its pair
PairsEqual(w) == \A i \in 0..7 : Bit(w, 2 * i) = Bit(w, 2 * i + 1)

\* the byte whose bit i sits at bit 2i + 1 of w
OddBits(w) == Bit(w, 1) + 2 * Bit(w, 3) + 4 * Bit(w, 5) + 8 * Bit(w, 7)
              + 16 * Bit(w, 9) + 32 * Bit(w, 11) + 64 * Bit(w, 13) + 128 * Bit(w, 15)

CmdByte(c) == IF c.len = 1 THEN c.tx[1] \div 256 ELSE OddBits(c.tx[1])

ValByte(c) == IF c.len = 1 THEN c.tx[1] % 256 ELSE OddBits(c.tx[2])

WellFramed(c) ==
    /\ Len(c.tx) = c.len
    /\ c.len = 2 => PairsEqual(c.tx[1]) /\ PairsEqual(c.tx[2])

\* c is the transfer of a register write of val to the 6-bit address reg
IsWrite(c, reg, val) == WellFramed(c) /\ CmdByte(c) = 128 + reg /\ ValByte(c) = val

(***************************************************************************)
(* C1: rhd_w puts opcode 10 and rhd_r opcode 11 in bits 7:6 of the command *)
(* byte, bits 5:0 are reg & 0x3F, and nothing else of the 16-bit reg is    *)
(* sent: rhd_r(reg) and rhd_r(reg | 0xC0) send the same words, in both     *)
(* modes.                                                                  *)
(***************************************************************************)
C1_OpcodeAndMask ==
    op \in {"rhd_r", "rhd_w"} =>
        /\ Len(calls) = 1
        /\ WellFramed(calls[1])
        /\ CmdByte(calls[1]) \div 64 = (IF op = "rhd_r" THEN 3 ELSE 2)
        /\ CmdByte(calls[1]) % 64 = args.reg % 64
        /\ op = "rhd_r" =>
              calls[1].tx = rhd_r_call(double_bits, BitOr(args.reg, 192), calls[1].rx).tx

C1_Witness ==
    /\ op = "rhd_w"
    /\ double_bits
    /\ args.reg = 65472 + 40
    /\ CmdByte(calls[1]) = 128 + 40

(***************************************************************************)
(* C2 as stated: every transport call has len 2 on a double-mode device    *)
(* and len 1 on a single-mode device, whatever public operation made it.   *)
(***************************************************************************)
C2_LenFollowsMode ==
    \A i \in 1..Len(calls) : calls[i].len = (IF double_bits THEN 2 ELSE 1)

(***************************************************************************)
(* C2 amended: every transport call made by an operation other than        *)
(* rhd2000_sample has len 2 on a double-mode device and len 1 on a         *)
(* single-mode device; rhd2000_sample always transfers one word.           *)
(***************************************************************************)
C2_LenFollowsModeButSample2000 ==
    \A i \in 1..Len(calls) :
        /\ Len(calls[i].tx) = calls[i].len
        /\ calls[i].len = (IF op = "rhd2000_sample" THEN 1
                           ELSE IF double_bits THEN 2 ELSE 1)

C2_Witness ==
    /\ op = "rhd2164_sample_all"
    /\ double_bits
    /\ Len(calls) = 32
    /\ calls[32].len = 2

(***************************************************************************)
(* C3: in double mode rhd_send makes one transport call of len 2 with      *)
(* tx[0] = duplicate_bits(reg), tx[1] = duplicate_bits(val) and returns    *)
(* the a stream of the second received word; the first received word does  *)
(* not enter the result.                                                   *)
(***************************************************************************)
C3_SendDouble ==
    (op = "rhd_send" /\ double_bits) =>
        /\ Len(calls) = 1
        /\ calls[1].len = 2
        /\ calls[1].tx = <<rhd_duplicate_bits(args.reg), rhd_duplicate_bits(args.val)>>
        /\ ret = rhd_unsplit_u16(calls[1].rx[2]).a

C3_Witness ==
    /\ op = "rhd_send"
    /\ double_bits
    /\ calls[1].rx = <<21845, 43690>>
    /\ ret = 255

(***************************************************************************)
(* C4: in single mode rhd_send makes one transport call of len 1 whose     *)
(* word is (reg << 8) | (val & 0xFF) cut to 16 bits, and returns the low   *)
(* byte of the received word.                                              *)
(***************************************************************************)
C4_SendSingle ==
    (op = "rhd_send" /\ ~double_bits) =>
        /\ Len(calls) = 1
        /\ calls[1].len = 1
        /\ calls[1].tx = <<((args.reg * 256) + (args.val % 256)) % 65536>>
        /\ ret = calls[1].rx[1] % 256

C4_Witness ==
    /\ op = "rhd_send"
    /\ ~double_bits
    /\ args.reg = 256 + 63
    /\ args.val = 421
    /\ calls[1].tx = <<63 * 256 + 165>>
    /\ calls[1].rx = <<4660>>
    /\ ret = 52

(***************************************************************************)
(* C5: for every 8-bit v and i in 0..7, bits 2i and 2i+1 of                *)
(* duplicate_bits(v) both equal bit i of v and the result fits 16 bits;    *)
(* 0x00 -> 0x0000, 0xFF -> 0xFFFF, 0x53 -> 0x330F, 0x80 -> 0xC000.         *)
(***************************************************************************)
C5_DuplicateBits ==
    op = "rhd_duplicate_bits" =>
        /\ ret \in 0..65535
        /\ \A i \in 0..7 : /\ Bit(ret, 2 * i) = Bit(args.val, i)
                            /\ Bit(ret, 2 * i + 1) = Bit(args.val, i)
        /\ args.val = 0 => ret = 0
        /\ args.val = 255 => ret = 65535
        /\ args.val = 83 => ret = 13071
        /\ args.val = 128 => ret = 49152

C5_Witness == op = "rhd_duplicate_bits" /\ args.val = 83 /\ ret = 13071

(***************************************************************************)
(* C6 as stated: unsplit(w) = (a, b), held in stored as <<a, b>>, with    *)
(* bit i of b equal to bit i of w and bit i of a equal to bit i+1 of w,    *)
(* for i in 0..7.                                                          *)
(***************************************************************************)
C6_UnsplitContiguous ==
    op = "rhd_unsplit_u16" =>
        \A i \in 0..7 : /\ Bit(stored[2], i) = Bit(args.data, i)
                        /\ Bit(stored[1], i) = Bit(args.data, i + 1)

(***************************************************************************)
(* C6 amended: unsplit(w) = (a, b) with bit i of b equal to bit 2i of w    *)
(* and bit i of a equal to bit 2i+1 of w, for i in 0..7, a and b 8-bit.    *)
(***************************************************************************)
C6_UnsplitInterleaved ==
    op = "rhd_unsplit_u16" =>
        /\ stored[1] \in 0..255
        /\ stored[2] \in 0..255
        /\ \A i \in 0..7 : /\ Bit(stored[2], i) = Bit(args.data, 2 * i)
                            /\ Bit(stored[1], i) = Bit(args.data, 2 * i + 1)

C6_Witness ==
    /\ op = "rhd_unsplit_u16"
    /\ args.data = 13071 + 32768
    /\ stored[2] = 83
    /\ stored[1] = 83 + 128

(***************************************************************************)
(* C7: the index rhd_cfg_amp_bw reads the four high-side DAC tables with   *)
(* is the smallest i in 0..16 with fh_lut[i] <= fh, and 16 when no         *)
(* threshold qualifies (fh = 90); fh = 20000 gives 0; it is always within  *)
(* 0..16.                                                                  *)
(***************************************************************************)
FhQualifying(fh) == {i \in 0..16 : fh_lut[i + 1] <= fh}

FhClaimedIndex(fh) ==
    IF FhQualifying(fh) = {} THEN 16
    ELSE CHOOSE i \in FhQualifying(fh) : \A j \in FhQualifying(fh) : i <= j

C7_HighCutoffIndex ==
    op = "rhd_cfg_amp_bw" =>
        /\ sel.i_fh \in 0..16
        /\ sel.i_fh = FhClaimedIndex(args.fh)
        /\ args.fh = 20000 => sel.i_fh = 0
        /\ args.fh = 90 => sel.i_fh = 16

(***************************************************************************)
(* C8: the index rhd_cfg_amp_bw reads the three low-side DAC tables with   *)
(* is the smallest i in 0..24 with fl_lut[i] >= fl, and 24 when no         *)
(* threshold qualifies (fl = 600); fl = 0.1 gives 0; the two low-side      *)
(* writes carry dac1[i] and (dac3[i] << 6) | dac2[i].                      *)
(***************************************************************************)
FlQualifying(fl) == {i \in 0..24 : fl_lut[i + 1] >= fl}

FlClaimedIndex(fl) ==
    IF FlQualifying(fl) = {} THEN 24
    ELSE CHOOSE i \in FlQualifying(fl) : \A j \in FlQualifying(fl) : i <= j

C8_LowCutoffIndex ==
    op = "rhd_cfg_amp_bw" =>
        LET i == FlClaimedIndex(args.fl)
        IN  /\ sel.i_fl = i
            /\ args.fl = 10 => sel.i_fl = 0
            /\ args.fl = 60000 => sel.i_fl = 24
            /\ IsWrite(calls[5], AMP_BW_SEL_0 + 4, rl_dac1_lut[i + 1])
            /\ IsWrite(calls[6], AMP_BW_SEL_0 + 5, rl_dac3_lut[i + 1] * 64 + rl_dac2_lut[i + 1])

(***************************************************************************)
(* C9: rhd_cfg_fs with target = fs * n_ch selects the largest index of the *)
(* 9-entry table whose threshold is < target, 0 when target <= 120000 and  *)
(* 8 when target exceeds every threshold (100000 -> 0, 120000 -> 0,        *)
(* 800000 -> 8), then issues exactly two writes, the ADC-buffer-bias code  *)
(* and then the mux-bias code of that index.                               *)
(***************************************************************************)
FsBelow(target) == {i \in 0..8 : msps_lut[i + 1] < target}

FsClaimedIndex(target) ==
    IF FsBelow(target) = {} THEN 0
    ELSE CHOOSE i \in FsBelow(target) : \A j \in FsBelow(target) : j <= i

C9_SampleRateIndex ==
    op = "rhd_cfg_fs" =>
        LET target == args.fs * args.n_ch
            i      == FsClaimedIndex(target)
        IN  /\ sel.i_lut = i
            /\ target <= 120000 => sel.i_lut = 0
            /\ target > 700000 => sel.i_lut = 8
            /\ Len(calls) = 2
            /\ IsWrite(calls[1], SUPPLY_SENS_ADC_BUF_BIAS, adc_buf_bias_lut[i + 1])
            /\ IsWrite(calls[2], MUX_BIAS_CURR, mux_bias_lut[i + 1])

C9_Witness ==
    /\ op = "rhd_cfg_fs"
    /\ args.fs = 25000
    /\ args.n_ch = 32
    /\ sel.i_lut = 8
    /\ ValByte(calls[1]) = 2
    /\ ValByte(calls[2]) = 4

(***************************************************************************)
(* C10: rhd_cfg_dsp with DSP enabled never silently truncates the cutoff   *)
(* selection: the count placed in bits 3:0 of the value written is at most *)
(* 15, or the operation reports a configuration-range error; the count     *)
(* never overflows the 4-bit field into the DSP-enable bit.                *)
(***************************************************************************)
\* the value returned is not a chip echo (a uint8_t)
RangeErrorReported == ret \notin 0..255

C10_DspCountFitsOrError ==
    (op = "rhd_cfg_dsp" /\ args.dsp) =>
        \/ /\ sel.dsp_val <= 15
           /\ ValByte(calls[1]) % 16 = sel.dsp_val
        \/ RangeErrorReported

(***************************************************************************)
(* C11: rhd_cfg_dsp with DSP enabled walks the 16-entry descending table   *)
(* from count 0: the count is the number of leading entries whose          *)
(* threshold is >= k, the walk stopping without incrementing at the first  *)
(* entry whose threshold is < k; with DSP disabled the value written has   *)
(* bit 4 clear and cutoff-select 0.                                        *)
(***************************************************************************)
\* threshold i (from 0) of the table is >= k
KAtMost(k, i) == ~RatGt(k[1], k[2], k_lut[i + 1], K_DEN)

C11_DspCount ==
    op = "rhd_cfg_dsp" =>
        IF args.dsp
        THEN /\ sel.dsp_val \in 0..16
             /\ \A i \in 0..(sel.dsp_val - 1) : KAtMost(sel.k, i)
             /\ sel.dsp_val < 16 => ~KAtMost(sel.k, sel.dsp_val)
        ELSE /\ WellFramed(calls[1])
             /\ Bit(ValByte(calls[1]), 4) = 0
             /\ ValByte(calls[1]) % 16 = 0

C11_Witness ==
    /\ op = "rhd_cfg_dsp"
    /\ args.dsp
    /\ args.fdsp = 10000
    /\ args.fs = 20000
    /\ sel.k = <<10000, 20000000>>
    /\ sel.dsp_val = 9
    /\ ValByte(calls[1]) % 32 = 16 + 9

(***************************************************************************)
(* C12: rhd_sanity_check returns 0 if and only if the forced reads of the  *)
(* five identity registers INTAN_0 .. INTAN_0+4 return 'I','N','T','A','N' *)
(* in that order; otherwise it returns INTAN_0 + i for the smallest i      *)
(* whose forced read mismatches ("XNTAN" gives INTAN_0), and it issues no  *)
(* further reads after that first mismatch.                                *)
(***************************************************************************)
\* c is the transfer of a read of the 6-bit address reg
IsRead(c, reg) == WellFramed(c) /\ CmdByte(c) = 192 + reg /\ ValByte(c) = 0

\* the forced reads made: three transfers each
ForcedReads == Len(calls) \div 3

\* what forced read i (from 0) returned: the byte decoded from its third reply
ForcedByte(i) == rhd_send_ret(double_bits, calls[3 * i + 3].rx)

ForcedMismatches == {i \in 0..(ForcedReads - 1) : ForcedByte(i) # INTAN[i + 1]}

C12_SanityCheck ==
    op = "rhd_sanity_check" =>
        /\ Len(calls) = 3 * ForcedReads
        /\ ForcedReads \in 1..5
        /\ \A i \in 0..(ForcedReads - 1) :
              \A j \in 1..3 : IsRead(calls[3 * i + j], INTAN_0 + i)
        /\ ret = 0 <=> (ForcedReads = 5 /\ ForcedMismatches = {})
        /\ ret # 0 => /\ ForcedMismatches = {ForcedReads - 1}
                      /\ ret = INTAN_0 + (ForcedReads - 1)

C12_Witness ==
    /\ op = "rhd_sanity_check"
    /\ double_bits
    /\ ForcedReads = 1
    /\ ForcedByte(0) = 88
    /\ ret = INTAN_0

(***************************************************************************)
(* C13: rhd2164_sample_all in double mode issues exactly 32 channel        *)
(* requests for ch = 0, 1, ..., 31 in ascending order and stores the die-A *)
(* reply of request 0 in slot 31, of request 1 in slot 30 and of every     *)
(* request ch >= 2 in slot ch - 2, with the die-B reply of the same        *)
(* request at that slot + 32; every one of the 64 slots is written exactly *)
(* once per sweep.  (Slot 0 is compared on bits 15:1: its bit 0 is cleared *)
(* after the sweep.)                                                       *)
(***************************************************************************)
\* the two words rhd2164_sample hands back for request ch of the sweep
SweepReply(ch) ==
    rhd2164_sample_run(double_bits, ch, <<0, 0>>, calls[ch + 1].rx).rx

ClaimedSlot(ch) == IF ch = 0 THEN 31 ELSE IF ch = 1 THEN 30 ELSE ch - 2

\* frame slot s (from 0)
Slot(s) == stored[s + 1]

C13_SweepRemap ==
    (op = "rhd2164_sample_all" /\ double_bits) =>
        /\ Len(calls) = 32
        /\ Len(stored) = 64
        /\ \A ch \in 0..31 :
              /\ calls[ch + 1].len = 2
              /\ calls[ch + 1].tx = <<rhd_duplicate_bits(ch), 0>>
              /\ Slot(ClaimedSlot(ch)) \div 2 = SweepReply(ch)[1] \div 2
              /\ ClaimedSlot(ch) # 0 => Slot(ClaimedSlot(ch)) = SweepReply(ch)[1]
              /\ Slot(ClaimedSlot(ch) + 32) = SweepReply(ch)[2]
        /\ \A s \in 0..63 : sel.stores[s + 1] = 1

C13_Witness ==
    /\ op = "rhd2164_sample_all"
    /\ double_bits
    /\ calls[1].rx # calls[2].rx
    /\ Slot(31) = SweepReply(0)[1]
    /\ Slot(31) # Slot(30)
    /\ Slot(30) = SweepReply(1)[1]
    /\ Slot(63) # Slot(31)

(***************************************************************************)
(* C14: after every completed rhd2164_sample_all sweep, whatever words the *)
(* transport returned, bit 0 of frame slot 0 is 0 and its other 15 bits    *)
(* are exactly those received for that slot; no other slot is altered by   *)
(* the clearing step (in double mode slots 1..63 keep bit 0 set).          *)
(***************************************************************************)
C14_SlotZeroAligned ==
    op = "rhd2164_sample_all" =>
        /\ Slot(0) % 2 = 0
        /\ Slot(0) \div 2 = SweepReply(2)[1] \div 2
        /\ \A ch \in 0..31 :
              /\ ch # 2 => Slot(rx_ch_of(ch)) = SweepReply(ch)[1]
              /\ Slot(rx_ch_of(ch) + 32) = SweepReply(ch)[2]
        /\ double_bits => \A s \in 1..63 : Slot(s) % 2 = 1

C14_Witness ==
    /\ op = "rhd2164_sample_all"
    /\ double_bits
    /\ SweepReply(2)[1] = 65535
    /\ Slot(0) = 65534
    /\ Slot(1) = 65535
    /\ Slot(32) = 65535

(***************************************************************************)
(* C15 as stated: rhd2164_sample in double mode sends duplicate_bits(ch)   *)
(* followed by a zero word in one transfer of length 2 and returns two     *)
(* 16-bit values, the first assembled from the a streams and the second    *)
(* from the b streams of unsplit applied to both received words, the low   *)
(* byte of each value coming from the first received word and the high     *)
(* byte from the second, with bit 0 of both values forced to 1.            *)
(***************************************************************************)
\* the byte whose bit i sits at bit 2i of w
EvenBits(w) == Bit(w, 0) + 2 * Bit(w, 2) + 4 * Bit(w, 4) + 8 * Bit(w, 6)
               + 16 * Bit(w, 8) + 32 * Bit(w, 10) + 64 * Bit(w, 12) + 128 * Bit(w, 14)

\* x with bit 0 forced to 1
Marked(x) == x + (1 - (x % 2))

SampleRequestSent ==
    /\ Len(calls) = 1
    /\ calls[1].len = 2
    /\ calls[1].tx = <<rhd_duplicate_bits(args.ch), 0>>

C15_SampleLowByteFirst ==
    (op = "rhd2164_sample" /\ double_bits) =>
        LET first  == calls[1].rx[1]
            second == calls[1].rx[2]
        IN  /\ SampleRequestSent
            /\ stored = << Marked(256 * OddBits(second) + OddBits(first)),
                           Marked(256 * EvenBits(second) + EvenBits(first)) >>

(***************************************************************************)
(* C15 amended: as above, but the high byte of each value comes from the   *)
(* first received word and the low byte from the second.                   *)
(***************************************************************************)
C15_SampleHighByteFirst ==
    (op = "rhd2164_sample" /\ double_bits) =>
        LET first  == calls[1].rx[1]
            second == calls[1].rx[2]
        IN  /\ SampleRequestSent
            /\ stored = << Marked(256 * OddBits(first) + OddBits(second)),
                           Marked(256 * EvenBits(first) + EvenBits(second)) >>

C15_Witness ==
    /\ op = "rhd2164_sample"
    /\ double_bits
    /\ args.ch = 5
    /\ calls[1].tx = <<51, 0>>
    /\ calls[1].rx = <<21845, 43690>>
    /\ stored = <<255, 65281>>

(***************************************************************************)
(* C16: on a single-mode device frame acquisition is a direct 1:1 map: the *)
(* reply word received for channel request ch is stored in slot ch with no *)
(* index remap, and bit 0 of slot 0 is left as received.                   *)
(***************************************************************************)
C16_SingleDirectMap ==
    (op = "rhd2164_sample_all" /\ ~double_bits) =>
        /\ Len(calls) = 32
        /\ \A ch \in 0..31 : Slot(ch) = calls[ch + 1].rx[1]

(***************************************************************************)
(* C17: the transfer trace of rhd_setup is a fixed order for all           *)
(* arguments: two throwaway reads, the ADC-config and impedance-check      *)
(* writes, the sample-rate writes, the DSP/format write, the 8             *)
(* channel-power writes (all 0xFF), the 6 bandwidth writes, the            *)
(* calibration command byte 0b01010101 (bits 7:6 neither the read nor the  *)
(* write opcode), exactly 9 throwaway reads, then the sanity-check reads;  *)
(* no register write follows the calibration command and the value         *)
(* returned is the result of that final sanity check.                      *)
(***************************************************************************)
\* c is the transfer of a register write to the 6-bit address reg
IsWriteTo(c, reg) == WellFramed(c) /\ CmdByte(c) = 128 + reg

\* transfers of rhd_setup before its sanity check
SetupPrefix == 2 + 5 + 2 + 1 + 8 + 6 + 1 + 9

\* the forced reads of the final sanity check and what each returned
SetupForcedReads == (Len(calls) - SetupPrefix) \div 3

SetupForcedByte(i) == rhd_send_ret(double_bits, calls[SetupPrefix + 3 * i + 3].rx)

SetupMismatches ==
    {i \in 0..(SetupForcedReads - 1) : SetupForcedByte(i) # INTAN[i + 1]}

C17_SetupTrace ==
    op = "rhd_setup" =>
        /\ Len(calls) = SetupPrefix + 3 * SetupForcedReads
        /\ SetupForcedReads \in 1..5
        /\ IsRead(calls[1], CHIP_ID)
        /\ IsRead(calls[2], CHIP_ID)
        /\ IsWrite(calls[3], ADC_CFG, 222)
        /\ IsWrite(calls[4], MUX_LOAD_TEMP_SENS_AUX_DIG_OUT, 0)
        /\ IsWrite(calls[5], IMP_CHK_CTRL, 0)
        /\ IsWrite(calls[6], IMP_CHK_DAC, 0)
        /\ IsWrite(calls[7], IMP_CHK_AMP_SEL, 0)
        /\ IsWriteTo(calls[8], SUPPLY_SENS_ADC_BUF_BIAS)
        /\ IsWriteTo(calls[9], MUX_BIAS_CURR)
        /\ IsWriteTo(calls[10], ADC_OUT_FMT_DPS_OFF_RMVL)
        /\ \A n \in 0..7 : IsWrite(calls[11 + n], IND_AMP_PWR_0 + n, 255)
        /\ \A n \in 0..5 : IsWriteTo(calls[19 + n], AMP_BW_SEL_0 + n)
        /\ WellFramed(calls[25])
        /\ CmdByte(calls[25]) = 85
        /\ CmdByte(calls[25]) \div 64 \notin {2, 3}
        /\ \A n \in 26..34 : IsRead(calls[n], CHIP_ID)
        /\ \A i \in 0..(SetupForcedReads - 1) :
              \A j \in 1..3 : IsRead(calls[SetupPrefix + 3 * i + j], INTAN_0 + i)
        /\ \A n \in 26..Len(calls) : CmdByte(calls[n]) \div 64 # 2
        /\ ret = 0 <=> (SetupForcedReads = 5 /\ SetupMismatches = {})
        /\ ret # 0 => /\ SetupMismatches = {SetupForcedReads - 1}
                      /\ ret = INTAN_0 + (SetupForcedReads - 1)

C17_Witness ==
    /\ op = "rhd_setup"
    /\ double_bits
    /\ args.fh = 90
    /\ Len(calls) = 43
    /\ CmdByte(calls[25]) = 85
    /\ SetupForcedByte(2) = 88
    /\ ret = INTAN_0 + 2

(***************************************************************************)
(* C18: rhd2164_sample_all corrects the chip's pipeline delay: in          *)
(* back-to-back sweeps of a chip whose reply to the request for channel ch *)
(* carries the conversion of the channel requested before it (channel 31   *)
(* of the preceding sweep for request 0), every frame slot s in 0..31      *)
(* holds die A's conversion of channel s and slot s + 32 die B's           *)
(* conversion of channel s.  (Compared on bits 15:1, against the           *)
(* conversions of this sweep or of the one before.)                        *)
(***************************************************************************)
C18_PipelineCorrected ==
    (op = "rhd2164_sample_all" /\ chip.kind = "pipeline") =>
        \A s \in 0..31 :
            /\ Slot(s) \div 2 \in {chip.conv_a[s] \div 2, chip.last_a[s] \div 2}
            /\ Slot(s + 32) \div 2 \in {chip.conv_b[s] \div 2, chip.last_b[s] \div 2}

(***************************************************************************)
(* C19: rhd_read_force(reg) issues exactly three identical read commands   *)
(* for reg and returns only the reply to the third, the first two replies  *)
(* having no influence on the result; against a transport whose reply to a *)
(* read arrives up to two transfers after the command it therefore returns *)
(* the value of reg whatever commands were issued before it.               *)
(***************************************************************************)
C19_ReadForce ==
    op = "rhd_read_force" =>
        /\ Len(calls) = 3
        /\ \A n \in 1..3 : /\ IsRead(calls[n], args.reg % 64)
                             /\ calls[n].tx = calls[1].tx
        /\ ret = (IF double_bits THEN OddBits(calls[3].rx[2]) ELSE calls[3].rx[1] % 256)
        /\ chip.kind = "delayed" => ret = chip.value

C19_Witness ==
    /\ op = "rhd_read_force"
    /\ double_bits
    /\ args.reg = 65536 + INTAN_0
    /\ chip.kind = "delayed"
    /\ chip.delay = 2
    /\ chip.pending = <<88, 255>>
    /\ chip.value = 73
    /\ ret = 73

(***************************************************************************)
(* C20: for every 8-bit value v, unsplit(duplicate_bits(v)) = (v, v);      *)
(* consequently, in double mode against a loopback transport that returns  *)
(* each transmitted word unchanged, rhd_send(reg, val) returns val & 0xFF. *)
(***************************************************************************)
C20_RoundTrip ==
    /\ op = "round_trip" => stored = <<args.val, args.val>>
    /\ (op = "rhd_send" /\ chip.kind = "loopback" /\ double_bits) =>
          /\ calls[1].rx = calls[1].tx
          /\ ret = args.val % 256

C20_Witness ==
    /\ op = "rhd_send"
    /\ chip.kind = "loopback"
    /\ double_bits
    /\ args.reg = 128 + INTAN_0
    /\ args.val = 421
    /\ ret = 165
====
